---- MODULE Spec2Model ----
(***************************************************************************)
(* Model of 01_simulated_astrometric_orbit_fit.ipynb: the single-star fit, *)
(* the Keplerian detection loop, the parameter extraction and the          *)
(* companion-mass computation, executed cell after cell.                   *)
(*                                                                         *)
(* The notebook is a straight-line script.  Its statements are the         *)
(* entries of Program; pc is the index of the statement executed next.     *)
(* AstrometricModel objects live in a heap and the notebook's names        *)
(* single_star_model and model hold references into it, so that sharing    *)
(* between the two names is something the model can express.               *)
(*                                                                         *)
(* kepmodel, pystrometry and the Gaia archive are outside the repository.  *)
(* A call into them either returns or raises; what it returns is drawn     *)
(* from small sets.                                                        *)
(***************************************************************************)
EXTENDS Integers, Sequences, FiniteSets, TLC

\* ---------------------------------------------------------------- bounds

\* number of trial frequencies of the periodogram (10000 in the notebook)
nfreq == 3
\* periodogram powers are drawn from 0..MaxPower
MaxPower == 2
\* fitted parallaxes are drawn from -MaxParallax..MaxParallax
MaxParallax == 1
\* resolution of a false-alarm probability: FAP 1.0 is FapScale units
FapScale == 10000

\* -------------------------------------------------- periodogram settings

Pmin == 5
Pmax == 50000

\* Angular frequencies are integer multiples of 2*pi / NuUnit (per day):
\*   nu0 = 2*pi/Pmax                      = Pmin*(nfreq-1) units
\*   dnu = (2*pi/Pmin - nu0) / (nfreq-1)  = (Pmax - Pmin)  units
NuUnit == Pmin * Pmax * (nfreq - 1)
nu0 == Pmin * (nfreq - 1)
dnu == Pmax - Pmin

\* fap_threshold = 1e-3, in units of 1/FapScale
fap_threshold == FapScale \div 1000

\* the values model.fap can return: around the threshold and the two ends
FapValues == {0, fap_threshold - 1, fap_threshold, fap_threshold + 1, FapScale}

PowerValues == 0 .. MaxPower
ParallaxValues == (0 - MaxParallax) .. MaxParallax

\* ------------------------------------------------------------- the script

LoopRange_two == 1 + 1

\* for kpla in range(1)
LoopRange == 1

Program_reordered ==
  << <<"construct", "single_star_model">>,
     <<"add_lin", "ra">>, <<"add_lin", "dec">>, <<"add_lin", "parallax">>,
     <<"add_lin", "mura">>, <<"add_lin", "mudec">>,
     <<"fit_param", "cov.jit.sig">>,
     <<"fit", "single_star_model">>,
     <<"deepcopy", "model">>,
     <<"for", "kpla">>,
     <<"residuals", "model">>,
     <<"periodogram", "model">>,
     <<"argmax", "power">>,
     <<"fap", "model">>,
     <<"if", "faplvl">>,
     <<"add_keplerian_from_period", "model">>,
     <<"set_keplerian_param", "model">>,
     <<"fit", "model">>,
     <<"endfor", "kpla">>,
     <<"keplerian_parameters", "model">>,
     <<"linear_parameters", "model">>,
     <<"query", "gaia_source">>,
     <<"query", "binary_masses">>,
     <<"attribute_dict", "linear_parameters">>,
     <<"convert_from_angular_to_linear", "a_m">>,
     <<"pjGet_m2", "m2_MJ">>,
     <<"plot_astrometry", "attribute_dict">> >>

\* The statements of the notebook's code cells, in source order.
Program ==
  << <<"construct", "single_star_model">>,
     <<"add_lin", "ra">>, <<"add_lin", "dec">>, <<"add_lin", "parallax">>,
     <<"add_lin", "mura">>, <<"add_lin", "mudec">>,
     <<"fit_param", "cov.jit.sig">>,
     <<"fit", "single_star_model">>,
     <<"deepcopy", "model">>,
     <<"for", "kpla">>,
     <<"residuals", "model">>,
     <<"periodogram", "model">>,
     <<"argmax", "power">>,
     <<"fap", "model">>,
     <<"if", "faplvl">>,
     <<"add_keplerian_from_period", "model">>,
     <<"fit", "model">>,
     <<"set_keplerian_param", "model">>,
     <<"endfor", "kpla">>,
     <<"keplerian_parameters", "model">>,
     <<"linear_parameters", "model">>,
     <<"query", "gaia_source">>,
     <<"query", "binary_masses">>,
     <<"attribute_dict", "linear_parameters">>,
     <<"convert_from_angular_to_linear", "a_m">>,
     <<"pjGet_m2", "m2_MJ">>,
     <<"plot_astrometry", "attribute_dict">> >>

IndexOf(op) == CHOOSE i \in 1 .. Len(Program) : Program[i][1] = op

\* param = ['P', 'Tp', 'as', 'e', 'w', 'i', 'bigw']
param == <<"P", "Tp", "as", "e", "w", "i", "bigw">>

\* parameter names of a Keplerian component before set_keplerian_param:
\* the nonlinear elements and the four Thiele-Innes coefficients
DefaultKepParam == <<"P", "T0", "e", "A", "B", "F", "G">>

EmptyDict == [k \in {} |-> 0]

VARIABLES
  pc,                    \* index into Program of the next statement
  status,                \* "running", "failed" (an exception ended the run), "done"
  error,                 \* [at |-> statement, exc |-> exception] of the failure
  heap,                  \* the AstrometricModel objects
  single_star_model,     \* reference into heap, 0 while unbound
  model,                 \* reference into heap, 0 while unbound
  kpla,                  \* the loop variable, -1 before the loop
  loop_exit,             \* "none", "break" or "exhausted"
  nu, power, P,          \* arrays of the last periodogram, indexed from 0
  kmax,                  \* np.argmax(power)
  faplvl,                \* result of the last model.fap call
  fap_args,              \* the arguments of the last model.fap call
  calls,                 \* the calls made on AstrometricModel objects, in order
  keplerian_parameters,
  linear_parameters,
  m1_MS,
  a_m,
  attribute_dict

vars == <<pc, status, error, heap, single_star_model, model, kpla, loop_exit,
          nu, power, P, kmax, faplvl, fap_args, calls, keplerian_parameters,
          linear_parameters, m1_MS, a_m, attribute_dict>>

\* ----------------------------------------------------------------- values

\* a fraction <<n, d>> in lowest terms
RECURSIVE Gcd(_, _)
Gcd(a, b) == IF b = 0 THEN a ELSE Gcd(b, a % b)
Frac(n, d) == <<n \div Gcd(n, d), d \div Gcd(n, d)>>
Zero == Frac(0, 1)

Range(s) == {s[i] : i \in DOMAIN s}

\* the dict built by  for i, key in enumerate(names): d[key] = vals[i]
DictOf(names, vals) ==
  [k \in Range(names) |->
     vals[CHOOSE i \in DOMAIN names :
            names[i] = k /\ \A j \in DOMAIN names : names[j] = k => j <= i]]

\* P = 2 * np.pi / nu, in days, for nu given in units of 2*pi/NuUnit
Period(v) == Frac(NuUnit, v)

Argmax_first(a) == CHOOSE k \in DOMAIN a : \A j \in DOMAIN a : k <= j

\* np.argmax: the first index of a maximal entry
Argmax(a) ==
  CHOOSE k \in DOMAIN a :
    /\ \A j \in DOMAIN a : a[j] <= a[k]
    /\ \A j \in DOMAIN a : j < k => a[j] < a[k]

\* nu.max()
ArrayMax(a) == CHOOSE v \in Range(a) : \A j \in DOMAIN a : a[j] <= v

NoMoreSignificantPeak_ge(fap) == fap >= fap_threshold

\* if faplvl > fap_threshold: print('No more significant peak'); break
NoMoreSignificantPeak(fap) == fap > fap_threshold

\* ----------------------------------------------------- AstrometricModel

\* AstrometricModel(t, y, cpsi, spsi, err=..., jit=...)
NewModel ==
  [lin_name |-> << >>, lin_par |-> << >>, fit_param |-> << >>,
   keplerian |-> EmptyDict]

\* add_lin(vector, name): a new regressor, its coefficient free and not yet fitted
add_lin(m, name) ==
  [m EXCEPT !.lin_name = Append(@, name),
            !.lin_par = Append(@, 0),
            !.fit_param = Append(@, "lin." \o name)]

\* fit(): every free parameter is overwritten by its fitted value.  The fitted
\* parallax is plx; the other coefficients are abstracted to 1 (fitted).
fit(m, plx) ==
  [m EXCEPT
     !.lin_par = [i \in DOMAIN m.lin_name |->
                    IF m.lin_name[i] = "parallax" THEN plx ELSE 1],
     !.keplerian = [l \in DOMAIN m.keplerian |->
                      [m.keplerian[l] EXCEPT !.fitted = TRUE]]]

NextFreeLabel_from_one(kep) == ToString(Cardinality(DOMAIN kep) + 1)

\* the name a new Keplerian gets: the smallest integer not in use, as a string
NextFreeLabel(kep) ==
  ToString(CHOOSE k \in 0 .. Cardinality(DOMAIN kep) :
             /\ ToString(k) \notin DOMAIN kep
             /\ \A j \in 0 .. Cardinality(DOMAIN kep) :
                  j < k => ToString(j) \in DOMAIN kep)

KepFitParam(label, names) ==
  [i \in DOMAIN names |-> "kep." \o label \o "." \o names[i]]

IsKepFitParam(label, name) ==
  \E n \in Range(DefaultKepParam) \cup Range(param) :
    name = "kep." \o label \o "." \o n

\* add_keplerian_from_period(period): a new component seeded with the period,
\* in the default parametrization, its parameters free
add_keplerian_from_period(m, period) ==
  LET label == NextFreeLabel(m.keplerian) IN
  [m EXCEPT
     !.keplerian = (label :> [_param |-> DefaultKepParam,
                              _par |-> [i \in DOMAIN DefaultKepParam |->
                                          IF DefaultKepParam[i] = "P"
                                            THEN period ELSE Zero],
                              seed |-> period,
                              fitted |-> FALSE]) @@ @,
     !.fit_param = @ \o KepFitParam(label, DefaultKepParam)]

\* set_keplerian_param(label, param=names): the component's parameters are
\* converted to the new set and re-registered as the free ones
set_keplerian_param(m, label, names) ==
  LET old == m.keplerian[label]
      kept == SelectSeq(m.fit_param, LAMBDA n : ~IsKepFitParam(label, n))
  IN
  [m EXCEPT
     !.keplerian[label] =
        [old EXCEPT !._param = names,
                    !._par = [i \in DOMAIN names |->
                                IF names[i] \in Range(old._param)
                                  THEN DictOf(old._param, old._par)[names[i]]
                                  ELSE Zero]],
     !.fit_param = kept \o KepFitParam(label, names)]

Deepcopy_alias(h, r) == [heap |-> h, ref |-> r]

\* copy.deepcopy(obj): a new object with the same value
Deepcopy(h, r) == [heap |-> Append(h, h[r]), ref |-> Len(h) + 1]

\* ---------------------------------------------------------- control flow

Stmt == Program[pc]
Op == Stmt[1]
Arg == Stmt[2]

Running == status = "running" /\ pc \in 1 .. Len(Program)
At(op) == Running /\ Op = op

\* the object a notebook name refers to
Ref(name) == IF name = "model" THEN model ELSE single_star_model

Goto(i) ==
  /\ pc' = i
  /\ status' = IF i > Len(Program) THEN "done" ELSE "running"

Advance == Goto(pc + 1)

Raise_swallowed(at) ==
  IF at > IndexOf("for") /\ at < IndexOf("endfor")
    THEN [pc |-> IndexOf("endfor"), status |-> "running"]
    ELSE [pc |-> at, status |-> "failed"]

\* No statement of the notebook is inside a try block: an exception raised at
\* statement `at` ends the run there.
Raise(at) == [pc |-> at, status |-> "failed"]

Throw(exc) ==
  /\ pc' = Raise(pc).pc
  /\ status' = Raise(pc).status
  /\ error' = [at |-> Op, exc |-> exc]

Call(op, ref, arg, ok) ==
  [op |-> op, on |-> ref, arg |-> arg, ok |-> ok,
   kep |-> DOMAIN heap[ref].keplerian]

Logged(op, ref, arg, ok) == calls' = Append(calls, Call(op, ref, arg, ok))

\* ------------------------------------------------- cell: single-star model

\* single_star_model = AstrometricModel(...)
Construct ==
  /\ At("construct")
  /\ heap' = Append(heap, NewModel)
  /\ single_star_model' = Len(heap) + 1
  /\ Advance
  /\ UNCHANGED <<error, model, kpla, loop_exit, nu, power, P, kmax, faplvl,
                 fap_args, calls, keplerian_parameters, linear_parameters,
                 m1_MS, a_m, attribute_dict>>

\* single_star_model.add_lin(..., name)
AddLin ==
  /\ At("add_lin")
  /\ heap' = [heap EXCEPT ![single_star_model] = add_lin(@, Arg)]
  /\ Advance
  /\ UNCHANGED <<error, single_star_model, model, kpla, loop_exit, nu, power,
                 P, kmax, faplvl, fap_args, calls, keplerian_parameters,
                 linear_parameters, m1_MS, a_m, attribute_dict>>

\* single_star_model.fit_param += ['cov.jit.sig']
AddJitter ==
  /\ At("fit_param")
  /\ heap' = [heap EXCEPT ![single_star_model].fit_param = Append(@, Arg)]
  /\ Advance
  /\ UNCHANGED <<error, single_star_model, model, kpla, loop_exit, nu, power,
                 P, kmax, faplvl, fap_args, calls, keplerian_parameters,
                 linear_parameters, m1_MS, a_m, attribute_dict>>

\* single_star_model.fit()  and, in the loop,  model.fit()
Fit ==
  /\ At("fit")
  /\ \/ /\ \E plx \in ParallaxValues :
             heap' = [heap EXCEPT ![Ref(Arg)] = fit(@, plx)]
        /\ Logged("fit", Ref(Arg), << >>, TRUE)
        /\ Advance
        /\ UNCHANGED error
     \/ /\ Logged("fit", Ref(Arg), << >>, FALSE)
        /\ Throw("FitError")
        /\ UNCHANGED heap
  /\ UNCHANGED <<single_star_model, model, kpla, loop_exit, nu, power, P,
                 kmax, faplvl, fap_args, keplerian_parameters,
                 linear_parameters, m1_MS, a_m, attribute_dict>>

\* ---------------------------------------------------- cell: detection loop

\* model = copy.deepcopy(single_star_model)
DeepCopy ==
  /\ At("deepcopy")
  /\ heap' = Deepcopy(heap, single_star_model).heap
  /\ model' = Deepcopy(heap, single_star_model).ref
  /\ Advance
  /\ UNCHANGED <<error, single_star_model, kpla, loop_exit, nu, power, P,
                 kmax, faplvl, fap_args, calls, keplerian_parameters,
                 linear_parameters, m1_MS, a_m, attribute_dict>>

\* for kpla in range(LoopRange): the next value, or the end of the loop
For ==
  /\ At("for")
  /\ IF kpla + 1 < LoopRange
       THEN /\ kpla' = kpla + 1
            /\ Advance
            /\ UNCHANGED loop_exit
       ELSE /\ loop_exit' = "exhausted"
            /\ Goto(IndexOf("endfor") + 1)
            /\ UNCHANGED kpla
  /\ UNCHANGED <<error, heap, single_star_model, model, nu, power, P, kmax,
                 faplvl, fap_args, calls, keplerian_parameters,
                 linear_parameters, m1_MS, a_m, attribute_dict>>

\* res = model.residuals()
Residuals ==
  /\ At("residuals")
  /\ Logged("residuals", model, << >>, TRUE)
  /\ Advance
  /\ UNCHANGED <<error, heap, single_star_model, model, kpla, loop_exit, nu,
                 power, P, kmax, faplvl, fap_args, keplerian_parameters,
                 linear_parameters, m1_MS, a_m, attribute_dict>>

\* nu, power = model.periodogram(nu0, dnu, nfreq);  P = 2 * np.pi / nu
Periodogram ==
  /\ At("periodogram")
  /\ \E pw \in [0 .. nfreq - 1 -> PowerValues] : power' = pw
  /\ nu' = [k \in 0 .. nfreq - 1 |-> nu0 + k * dnu]
  /\ P' = [k \in 0 .. nfreq - 1 |-> Period(nu'[k])]
  /\ Logged("periodogram", model, <<nu0, dnu, nfreq>>, TRUE)
  /\ Advance
  /\ UNCHANGED <<error, heap, single_star_model, model, kpla, loop_exit,
                 kmax, faplvl, fap_args, keplerian_parameters,
                 linear_parameters, m1_MS, a_m, attribute_dict>>

\* kmax = np.argmax(power)
ArgmaxStep ==
  /\ At("argmax")
  /\ kmax' = Argmax(power)
  /\ Advance
  /\ UNCHANGED <<error, heap, single_star_model, model, kpla, loop_exit, nu,
                 power, P, faplvl, fap_args, calls, keplerian_parameters,
                 linear_parameters, m1_MS, a_m, attribute_dict>>

\* faplvl = model.fap(power[kmax], nu.max())
Fap ==
  /\ At("fap")
  /\ \E f \in FapValues : faplvl' = f
  /\ fap_args' = <<power[kmax], ArrayMax(nu)>>
  /\ Logged("fap", model, fap_args', TRUE)
  /\ Advance
  /\ UNCHANGED <<error, heap, single_star_model, model, kpla, loop_exit, nu,
                 power, P, kmax, keplerian_parameters, linear_parameters,
                 m1_MS, a_m, attribute_dict>>

\* if faplvl > fap_threshold: break
Test ==
  /\ At("if")
  /\ IF NoMoreSignificantPeak(faplvl)
       THEN /\ loop_exit' = "break"
            /\ Goto(IndexOf("endfor") + 1)
       ELSE /\ Advance
            /\ UNCHANGED loop_exit
  /\ UNCHANGED <<error, heap, single_star_model, model, kpla, nu, power, P,
                 kmax, faplvl, fap_args, calls, keplerian_parameters,
                 linear_parameters, m1_MS, a_m, attribute_dict>>

\* model.add_keplerian_from_period(P[kmax])
AddKeplerian ==
  /\ At("add_keplerian_from_period")
  /\ \/ /\ heap' = [heap EXCEPT ![model] = add_keplerian_from_period(@, P[kmax])]
        /\ Logged("add_keplerian_from_period", model, P[kmax], TRUE)
        /\ Advance
        /\ UNCHANGED error
     \/ /\ Logged("add_keplerian_from_period", model, P[kmax], FALSE)
        /\ Throw("NumericalError")
        /\ UNCHANGED heap
  /\ UNCHANGED <<single_star_model, model, kpla, loop_exit, nu, power, P,
                 kmax, faplvl, fap_args, keplerian_parameters,
                 linear_parameters, m1_MS, a_m, attribute_dict>>

\* model.set_keplerian_param(f'{kpla}', param=param)
SetKeplerianParam ==
  /\ At("set_keplerian_param")
  /\ LET label == ToString(kpla) IN
     \/ /\ label \in DOMAIN heap[model].keplerian
        /\ heap' = [heap EXCEPT ![model] = set_keplerian_param(@, label, param)]
        /\ Logged("set_keplerian_param", model, <<label>>, TRUE)
        /\ Advance
        /\ UNCHANGED error
     \/ /\ Logged("set_keplerian_param", model, <<label>>, FALSE)
        /\ Throw(IF label \in DOMAIN heap[model].keplerian
                   THEN "NumericalError" ELSE "KeyError")
        /\ UNCHANGED heap
  /\ UNCHANGED <<single_star_model, model, kpla, loop_exit, nu, power, P,
                 kmax, faplvl, fap_args, keplerian_parameters,
                 linear_parameters, m1_MS, a_m, attribute_dict>>

\* the end of the loop body: back to the for statement
EndFor ==
  /\ At("endfor")
  /\ Goto(IndexOf("for"))
  /\ UNCHANGED <<error, heap, single_star_model, model, kpla, loop_exit, nu,
                 power, P, kmax, faplvl, fap_args, calls,
                 keplerian_parameters, linear_parameters, m1_MS, a_m,
                 attribute_dict>>

\* ------------------------------------------- cell: parameter extraction

\* for i, key in enumerate(model.keplerian['0']._param):
\*     keplerian_parameters[key] = model.keplerian['0']._par[i]
ExtractKeplerian ==
  /\ At("keplerian_parameters")
  /\ IF "0" \in DOMAIN heap[model].keplerian
       THEN /\ keplerian_parameters' =
                 DictOf(heap[model].keplerian["0"]._param,
                        heap[model].keplerian["0"]._par)
            /\ Advance
            /\ UNCHANGED error
       ELSE /\ Throw("KeyError")
            /\ UNCHANGED keplerian_parameters
  /\ UNCHANGED <<heap, single_star_model, model, kpla, loop_exit, nu, power,
                 P, kmax, faplvl, fap_args, calls, linear_parameters, m1_MS,
                 a_m, attribute_dict>>

\* for i, key in enumerate(model._lin_name):
\*     linear_parameters[key] = model._lin_par[i]
ExtractLinear ==
  /\ At("linear_parameters")
  /\ linear_parameters' = DictOf(heap[model].lin_name, heap[model].lin_par)
  /\ Advance
  /\ UNCHANGED <<error, heap, single_star_model, model, kpla, loop_exit, nu,
                 power, P, kmax, faplvl, fap_args, calls,
                 keplerian_parameters, m1_MS, a_m, attribute_dict>>

\* ------------------------------------------------- cells: Gaia DR3 queries

\* Gaia.launch_job_async(query=...).get_results(): the archive answers or the
\* query raises; the second query yields the primary mass m1_MS_gaia
Query ==
  /\ At("query")
  /\ \/ /\ m1_MS' = IF Arg = "binary_masses" THEN "binary_masses.m1" ELSE m1_MS
        /\ Advance
        /\ UNCHANGED error
     \/ /\ Throw("ArchiveError")
        /\ UNCHANGED m1_MS
  /\ UNCHANGED <<heap, single_star_model, model, kpla, loop_exit, nu, power,
                 P, kmax, faplvl, fap_args, calls, keplerian_parameters,
                 linear_parameters, a_m, attribute_dict>>

\* ------------------------------------------ cell: companion mass and plot

HasKeys(d, keys) == keys \subseteq DOMAIN d

\* attribute_dict = OrderedDict([('ra', ...), ..., ('scan_angle_definition', 'gaia')])
Attributes ==
  /\ At("attribute_dict")
  /\ IF HasKeys(linear_parameters, {"parallax", "mura", "mudec"})
       THEN /\ attribute_dict' =
                 [k \in {"ra", "dec", "absolute_plx_mas", "muRA_mas",
                         "muDE_mas", "muAlphaStar_masPyr", "muDelta_masPyr",
                         "Tref_MJD", "scan_angle_definition"} |->
                    CASE k = "absolute_plx_mas" -> <<linear_parameters["parallax"]>>
                      [] k \in {"muRA_mas", "muAlphaStar_masPyr"} ->
                           <<linear_parameters["mura"]>>
                      [] k \in {"muDE_mas", "muDelta_masPyr"} ->
                           <<linear_parameters["mudec"]>>
                      [] OTHER -> <<k>>]
            /\ Advance
            /\ UNCHANGED error
       ELSE /\ Throw("KeyError")
            /\ UNCHANGED attribute_dict
  /\ UNCHANGED <<heap, single_star_model, model, kpla, loop_exit, nu, power,
                 P, kmax, faplvl, fap_args, calls, keplerian_parameters,
                 linear_parameters, m1_MS, a_m>>

\* a_m = convert_from_angular_to_linear(keplerian_parameters['as'],
\*                                      linear_parameters['parallax'])
\* For a positive parallax the function returns the linear semi-major axis.
\* What it does with a parallax <= 0 is decided inside pystrometry: both a
\* returned value and a raised error are kept as possible outcomes.
Convert ==
  /\ At("convert_from_angular_to_linear")
  /\ IF HasKeys(keplerian_parameters, {"as"}) /\ HasKeys(linear_parameters, {"parallax"})
       THEN \/ /\ a_m' = <<"a_m", keplerian_parameters["as"],
                           linear_parameters["parallax"]>>
               /\ Advance
               /\ UNCHANGED error
            \/ /\ linear_parameters["parallax"] <= 0
               /\ Throw("InvalidParameter")
               /\ UNCHANGED a_m
       ELSE /\ Throw("KeyError")
            /\ UNCHANGED a_m
  /\ UNCHANGED <<heap, single_star_model, model, kpla, loop_exit, nu, power,
                 P, kmax, faplvl, fap_args, calls, keplerian_parameters,
                 linear_parameters, m1_MS, attribute_dict>>

\* m2_kg = pjGet_m2(m1_MS * MS_kg, a_m, keplerian_parameters['P'])
\* m2_MJ = m2_kg / MJ_kg;  attribute_dict['m2_MJ'] = m2_MJ;  ...
CompanionMass ==
  /\ At("pjGet_m2")
  /\ IF /\ HasKeys(keplerian_parameters, {"P", "w", "e", "bigw", "i", "Tp", "as"})
        /\ HasKeys(linear_parameters, {"ra", "dec"})
       THEN /\ attribute_dict' =
                 [k \in {"m2_MJ", "m1_MS", "P_day", "p1_omega_deg", "ecc",
                         "p1_OMEGA_deg", "p1_incl_deg", "p1_Tp_day",
                         "p1_a1_mas", "p1_ecc", "p1_period_day",
                         "p1_Tp_day-T0", "offset_alphastar_mas",
                         "offset_delta_mas", "source_id"} |->
                    CASE k = "m2_MJ" -> <<"pjGet_m2", m1_MS, a_m,
                                          keplerian_parameters["P"]>>
                      [] k = "m1_MS" -> <<m1_MS>>
                      [] k \in {"P_day", "p1_period_day"} -> keplerian_parameters["P"]
                      [] k = "p1_omega_deg" -> <<"rad2deg", keplerian_parameters["w"]>>
                      [] k \in {"ecc", "p1_ecc"} -> keplerian_parameters["e"]
                      [] k = "p1_OMEGA_deg" -> <<"rad2deg", keplerian_parameters["bigw"]>>
                      [] k = "p1_incl_deg" -> <<"rad2deg", keplerian_parameters["i"]>>
                      [] k = "p1_Tp_day" -> <<"Tref_MJD+", keplerian_parameters["Tp"]>>
                      [] k = "p1_a1_mas" -> keplerian_parameters["as"]
                      [] k = "p1_Tp_day-T0" -> keplerian_parameters["Tp"]
                      [] k = "offset_alphastar_mas" -> <<linear_parameters["ra"]>>
                      [] k = "offset_delta_mas" -> <<linear_parameters["dec"]>>
                      [] OTHER -> <<k>>]
                 @@ attribute_dict
            /\ Advance
            /\ UNCHANGED error
       ELSE /\ Throw("KeyError")
            /\ UNCHANGED attribute_dict
  /\ UNCHANGED <<heap, single_star_model, model, kpla, loop_exit, nu, power,
                 P, kmax, faplvl, fap_args, calls, keplerian_parameters,
                 linear_parameters, m1_MS, a_m>>

\* plot_astrometry(simulated_astrometry, pd.DataFrame(attribute_dict, ...), ...)
Plot ==
  /\ At("plot_astrometry")
  /\ Advance
  /\ UNCHANGED <<error, heap, single_star_model, model, kpla, loop_exit, nu,
                 power, P, kmax, faplvl, fap_args, calls,
                 keplerian_parameters, linear_parameters, m1_MS, a_m,
                 attribute_dict>>

\* ------------------------------------------------------- specification

NoError == [at |-> "none", exc |-> "none"]

Init ==
  /\ pc = 1
  /\ status = "running"
  /\ error = NoError
  /\ heap = << >>
  /\ single_star_model = 0
  /\ model = 0
  /\ kpla = -1
  /\ loop_exit = "none"
  /\ nu = << >>
  /\ power = << >>
  /\ P = << >>
  /\ kmax = 0
  /\ faplvl = 0
  /\ fap_args = << >>
  /\ calls = << >>
  /\ keplerian_parameters = EmptyDict
  /\ linear_parameters = EmptyDict
  /\ m1_MS = "unset"
  /\ a_m = << >>
  /\ attribute_dict = EmptyDict

Next ==
  \/ Construct
  \/ AddLin
  \/ AddJitter
  \/ Fit
  \/ DeepCopy
  \/ For
  \/ Residuals
  \/ Periodogram
  \/ ArgmaxStep
  \/ Fap
  \/ Test
  \/ AddKeplerian
  \/ SetKeplerianParam
  \/ EndFor
  \/ ExtractKeplerian
  \/ ExtractLinear
  \/ Query
  \/ Attributes
  \/ Convert
  \/ CompanionMass
  \/ Plot

Spec == Init /\ [][Next]_vars

\* The notebook is synchronous and single-threaded: the statement at pc runs
\* as soon as the one before it has returned.
LiveSpec == Spec /\ WF_vars(Next)

\* ------------------------------------------------------------ properties

Started == status \in {"running", "failed"}
Last(s) == s[Len(s)]
Labels(ref) == DOMAIN heap[ref].keplerian
CallsOf(op) == {i \in DOMAIN calls : calls[i].op = op}
\* the statement at pc is one of the loop body's, strictly after lo and up to hi
InLoopBody(lo, hi) == Started /\ pc > IndexOf(lo) /\ pc <= IndexOf(hi)
LoopOver == loop_exit # "none"

\* C1, as claimed: a component is added only when the peak's FAP is strictly
\* below fap_threshold, and the loop stops without adding a component for every
\* FAP greater than or equal to the threshold.
C1_AddOnlyBelowThreshold ==
  /\ InLoopBody("if", "endfor") => faplvl < fap_threshold
  /\ loop_exit = "break" =>
       faplvl >= fap_threshold /\ Cardinality(Labels(model)) = kpla

\* C1, amended: a component is added only when the peak's FAP is less than or
\* equal to fap_threshold (a FAP exactly equal to the threshold adds one), and
\* the loop stops without adding a component for every FAP strictly greater.
C1_AddUnlessAboveThreshold ==
  /\ InLoopBody("if", "endfor") => faplvl <= fap_threshold
  /\ loop_exit = "break" =>
       faplvl > fap_threshold /\ Cardinality(Labels(model)) = kpla

\* a component was added for a peak whose FAP equals the threshold
C1_Witness ==
  /\ faplvl = fap_threshold
  /\ \E i \in CallsOf("add_keplerian_from_period") : calls[i].ok
  /\ "0" \in Labels(model)

\* C2, as claimed: the loop ends successfully only right after a periodogram/FAP
\* evaluation on the latest model whose peak FAP was not below the threshold.
C2_EndsOnlyAfterSearch ==
  LoopOver =>
    /\ calls # << >>
    /\ Last(calls).op = "fap"
    /\ Last(calls).kep = Labels(model)
    /\ faplvl >= fap_threshold

\* C2, amended: the loop ends successfully in one of two ways.  By the break,
\* right after a FAP evaluation on the latest model that gave a FAP above the
\* threshold; or by exhausting range(1) right after set_keplerian_param, and
\* then the only periodogram/FAP evaluation is the one made before the
\* component was added: the refitted model's residuals are not searched.
C2_EndsByBreakOrExhaustion ==
  /\ loop_exit = "break" =>
       /\ Last(calls).op = "fap"
       /\ Last(calls).kep = Labels(model)
       /\ faplvl > fap_threshold
  /\ loop_exit = "exhausted" =>
       /\ Last(calls).op = "set_keplerian_param" /\ Last(calls).ok
       /\ faplvl <= fap_threshold
       /\ Cardinality(CallsOf("periodogram")) = 1
       /\ Cardinality(CallsOf("fap")) = 1
       /\ \A i \in CallsOf("fap") : calls[i].kep # Labels(model)

\* the loop has ended after a component was added, refitted and reparametrized
C2_Witness ==
  /\ loop_exit = "exhausted"
  /\ status = "done"
  /\ Labels(model) = {"0"}
  /\ heap[model].keplerian["0"].fitted

\* C3: the detection loop always terminates, it runs at most one iteration
\* whatever the FAP outcomes are, and no model ever holds more than one
\* Keplerian component.
C3_LoopTerminatesWithinBound ==
  /\ <>(status = "failed" \/ LoopOver)
  /\ [](/\ Cardinality(CallsOf("periodogram")) <= 1
        /\ kpla < 1
        /\ \A r \in DOMAIN heap : Cardinality(Labels(r)) <= 1)

\* the loop ran its iteration to the end and the model holds one component
C3_Witness ==
  /\ loop_exit = "exhausted"
  /\ Cardinality(CallsOf("periodogram")) = 1
  /\ Cardinality(Labels(model)) = 1

\* C4: a failure of add_keplerian_from_period, fit or set_keplerian_param in the
\* loop ends the run in that statement: the failed call is the last call made,
\* the loop has no successful end, and nothing after the loop has run.
C4_FailureEndsLoop ==
  \A i \in DOMAIN calls :
    (~calls[i].ok /\ model # 0 /\ calls[i].on = model) =>
      /\ i = Len(calls)
      /\ status = "failed"
      /\ error.at = calls[i].op
      /\ Program[pc][1] = calls[i].op
      /\ loop_exit = "none"
      /\ keplerian_parameters = EmptyDict
      /\ attribute_dict = EmptyDict

\* the refit of the model with the new component failed
C4_Witness ==
  /\ status = "failed"
  /\ error.at = "fit"
  /\ model # 0
  /\ Last(calls).on = model
  /\ ~Last(calls).ok
  /\ Labels(model) = {"0"}

\* C5, as claimed: whenever the loop ends without an error, on either path, the
\* parameter extraction finds Keplerian component '0' with the Campbell
\* parameter names, and the mass computation finds the keys it reads.
C5_OutputAfterEveryLoopEnd ==
  (LoopOver /\ pc >= IndexOf("keplerian_parameters")) =>
    /\ ~(status = "failed" /\ error.exc = "KeyError")
    /\ pc > IndexOf("keplerian_parameters") =>
         DOMAIN keplerian_parameters = Range(param)
    /\ pc > IndexOf("pjGet_m2") => "m2_MJ" \in DOMAIN attribute_dict

\* C7: the single-star fit completes before the first residuals/periodogram
\* call; in an iteration periodogram precedes fap, fap precedes
\* add_keplerian_from_period, which precedes fit, which precedes
\* set_keplerian_param; and set_keplerian_param follows a completed fit of the
\* same model that included the component it names.
C7_CallOrder ==
  \A i \in DOMAIN calls :
    LET c == calls[i] IN
    /\ c.op \in {"residuals", "periodogram"} =>
         \E j \in 1 .. i - 1 :
           calls[j].op = "fit" /\ calls[j].on = single_star_model /\ calls[j].ok
    /\ c.op = "periodogram" => calls[i - 1].op = "residuals"
    /\ c.op = "fap" => calls[i - 1].op = "periodogram"
    /\ c.op = "add_keplerian_from_period" => calls[i - 1].op = "fap"
    /\ (c.op = "fit" /\ i > 1) =>
         calls[i - 1].op = "add_keplerian_from_period" /\ calls[i - 1].ok
    /\ c.op = "set_keplerian_param" =>
         /\ calls[i - 1].op = "fit"
         /\ calls[i - 1].ok
         /\ calls[i - 1].on = c.on
         /\ c.arg[1] \in calls[i - 1].kep

\* set_keplerian_param was called after the refit
C7_Witness ==
  /\ Len(calls) >= 7
  /\ Last(calls).op = "set_keplerian_param"
  /\ Last(calls).ok

\* C8: from the deep copy on, no step changes the object single_star_model
\* refers to: its regressors, free parameters, coefficients and its empty set
\* of Keplerian components stay as the single-star fit left them.
C8_SingleStarModelUnchanged ==
  [][pc >= IndexOf("deepcopy") =>
       /\ single_star_model' = single_star_model
       /\ heap'[single_star_model] = heap[single_star_model]]_vars

\* the loop's model has a refitted component and the single-star model has none
C8_Witness ==
  /\ loop_exit = "exhausted"
  /\ model # single_star_model
  /\ Labels(model) = {"0"}
  /\ Labels(single_star_model) = {}
  /\ heap[model].lin_par # heap[single_star_model].lin_par
  /\ heap[model].fit_param # heap[single_star_model].fit_param

\* the fraction p = <<n, d>> days equals 2*pi/v for v in units of 2*pi/NuUnit:
\* n/d = NuUnit/v, stated with the common factor g
IsPeriodOf(p, v) ==
  LET g == NuUnit \div p[1] IN p[1] * g = NuUnit /\ p[2] * g = v

\* C9: the period handed to add_keplerian_from_period is 2*pi/nu of a grid
\* frequency whose power is maximal over the whole grid, and the FAP call just
\* before it got that power and the largest frequency of the grid.
C9_PeakOfWholeGrid ==
  \A i \in CallsOf("add_keplerian_from_period") :
    \E j \in DOMAIN power :
      /\ \A l \in DOMAIN power : power[l] <= power[j]
      /\ IsPeriodOf(calls[i].arg, nu[j])
      /\ calls[i - 1].op = "fap"
      /\ calls[i - 1].arg[1] = power[j]
      /\ calls[i - 1].arg[2] \in Range(nu)
      /\ \A l \in DOMAIN nu : nu[l] <= calls[i - 1].arg[2]

\* a component was added at a peak that is not the first grid point
C9_Witness ==
  /\ CallsOf("add_keplerian_from_period") # {}
  /\ kmax = nfreq - 1
  /\ power[0] < power[kmax]
  /\ Last(calls).arg = P[kmax]

\* C10: iteration k starts with exactly the components '0' .. 'k-1'; the
\* component set_keplerian_param names is the one the iteration created; and no
\* component of the model is removed, replaced or relabelled.
C10_LabelsFollowIterations ==
  /\ [](/\ (Started /\ pc > IndexOf("for")
              /\ pc <= IndexOf("add_keplerian_from_period")) =>
             Labels(model) = {ToString(j) : j \in 0 .. kpla - 1}
        /\ \A i \in CallsOf("set_keplerian_param") :
             calls[i - 1].kep \ calls[i - 2].kep = {calls[i].arg[1]})
  /\ [][model # 0 /\ model' = model =>
          \A l \in Labels(model) :
            /\ l \in DOMAIN heap'[model].keplerian
            /\ heap'[model].keplerian[l].seed = heap[model].keplerian[l].seed]_vars

\* component '0', created in iteration 0, was reparametrized
C10_Witness ==
  /\ kpla = 0
  /\ Last(calls).op = "set_keplerian_param"
  /\ Last(calls).ok
  /\ Last(calls).arg = <<"0">>
  /\ Labels(model) = {"0"}
  /\ heap[model].keplerian["0"]._param = param

====
